---- MODULE Spec2Model ----
(***************************************************************************)
(* Model of new1.py: the two-device event-correlation and clock-           *)
(* calibration server.  One step of the model is the processing of one     *)
(* complete text line received on one connection (new1.py:218-258) or the  *)
(* acceptance of one connection (new1.py:204-210).                         *)
(*                                                                         *)
(* Numbers.  Python integers are unbounded and the counter modulus is      *)
(* 2^32, beyond the integers of the model checker, so every Python int is  *)
(* a little-endian sequence of base-1000 limbs without leading zero limbs  *)
(* (zero is <<>>).  Python floats are idealised as exact rationals.        *)
(* Text.  A line is a sequence of one-character strings.                   *)
(***************************************************************************)
EXTENDS Integers, Sequences, FiniteSets

\* ------------------------------------------------------------------------
\* Optional values (Python None)
\* ------------------------------------------------------------------------
None == <<>>
Some(v) == <<v>>
Val(o) == o[1]

\* ------------------------------------------------------------------------
\* Unbounded naturals: little-endian limb sequences, zero is <<>>.  The
\* operators work limb-wise on whole sequences and then propagate carries,
\* so that the depth of evaluation does not grow with the numbers.
\* ------------------------------------------------------------------------
Radix == 10 * 100

MaxOf(S) == CHOOSE i \in S : \A j \in S : j <= i

\* a function on 1..n as the sequence of its values
SeqOf(f) == f \o <<>>

\* drop the leading (most significant) zero limbs
BigNorm(a) ==
    LET nz == {i \in 1..Len(a) : a[i] # 0}
    IN  IF nz = {} THEN <<>> ELSE SubSeq(a, 1, MaxOf(nz))

Limb(a, i) == IF i \in 1..Len(a) THEN a[i] ELSE 0

\* v is a sequence of integers (of either sign) whose weighted sum is >= 0:
\* the limb sequence of that sum
RECURSIVE Carry(_)
Carry(v) ==
    IF \A i \in 1..Len(v) : v[i] \in 0..(Radix - 1)
    THEN BigNorm(v)
    ELSE Carry(SeqOf([i \in 1..(Len(v) + 1) |->
                        (Limb(v, i) % Radix) + (Limb(v, i - 1) \div Radix)]))

RECURSIVE BigOfNat(_)
BigOfNat(n) == IF n = 0 THEN <<>> ELSE <<n % Radix>> \o BigOfNat(n \div Radix)

BigAdd(a, b) ==
    Carry(SeqOf([i \in 1..(IF Len(a) > Len(b) THEN Len(a) ELSE Len(b)) |->
                   Limb(a, i) + Limb(b, i)]))

BigLess(a, b) ==
    IF Len(a) # Len(b) THEN Len(a) < Len(b)
    ELSE LET diff == {i \in 1..Len(a) : a[i] # b[i]}
         IN  diff # {} /\ a[MaxOf(diff)] < b[MaxOf(diff)]

BigLeq(a, b) == ~BigLess(b, a)

\* a - b for a >= b
BigSub(a, b) == Carry(SeqOf([i \in 1..Len(a) |-> a[i] - Limb(b, i)]))

\* a * k + c for naturals k, c below Radix
BigMulSmallAdd(a, k, c) ==
    Carry(SeqOf([i \in 1..(Len(a) + 1) |->
                   Limb(a, i) * k + (IF i = 1 THEN c ELSE 0)]))

\* the sum of a[i] * b[k + 1 - i] for i in lo..hi
RECURSIVE ConvTerm(_, _, _, _, _)
ConvTerm(a, b, k, lo, hi) ==
    IF lo > hi THEN 0
    ELSE a[lo] * b[k + 1 - lo] + ConvTerm(a, b, k, lo + 1, hi)

BigMul(a, b) ==
    IF a = <<>> \/ b = <<>> THEN <<>>
    ELSE IF a = <<1>> THEN b
    ELSE IF b = <<1>> THEN a
    ELSE Carry(SeqOf([k \in 1..(Len(a) + Len(b) - 1) |->
                        ConvTerm(a, b, k,
                                 IF k + 1 - Len(b) > 1 THEN k + 1 - Len(b) ELSE 1,
                                 IF k < Len(a) THEN k ELSE Len(a))]))

\* ------------------------------------------------------------------------
\* Text: the str methods the main loop uses (new1.py:220-244)
\* ------------------------------------------------------------------------
Digits == <<"0", "1", "2", "3", "4", "5", "6", "7", "8", "9">>
Whitespace == {" ", "\r", "\t"}

IsDigit(c) == \E i \in 1..10 : Digits[i] = c
DigitVal(c) == (CHOOSE i \in 1..10 : Digits[i] = c) - 1

\* s.startswith(p)
StartsWith(s, p) == Len(s) >= Len(p) /\ SubSeq(s, 1, Len(p)) = p

\* s.find(p) + 1: the first position at which p occurs in s, 0 when absent
FindSub(s, p) ==
    LET hits == {i \in 1..(Len(s) - Len(p) + 1) : SubSeq(s, i, i + Len(p) - 1) = p}
    IN  IF hits = {} THEN 0 ELSE CHOOSE i \in hits : \A j \in hits : i <= j

\* p in s
Contains(s, p) == FindSub(s, p) # 0

\* s.strip()
RECURSIVE LStrip(_)
LStrip(s) == IF s # <<>> /\ Head(s) \in Whitespace THEN LStrip(Tail(s)) ELSE s
RECURSIVE RStrip(_)
RStrip(s) ==
    IF s # <<>> /\ s[Len(s)] \in Whitespace THEN RStrip(SubSeq(s, 1, Len(s) - 1)) ELSE s
Strip(s) == RStrip(LStrip(s))

\* s.split(sep, 1) for a separator that occurs in s: <<before, after>>
SplitOnce(s, sep) ==
    LET i == FindSub(s, sep)
    IN  <<SubSeq(s, 1, i - 1), SubSeq(s, i + Len(sep), Len(s))>>

\* s.split(sep)[1] for a separator that occurs in s: the text between the
\* first occurrence of sep and the next one (or the end of s)
SplitSecond(s, sep) ==
    LET rest == SplitOnce(s, sep)[2]
    IN  IF Contains(rest, sep) THEN SplitOnce(rest, sep)[1] ELSE rest

\* int(s) for text over digits and whitespace: Some(value), or None where
\* Python raises ValueError (empty text, or a character that is no digit)
RECURSIVE DecimalValue(_)
DecimalValue(t) ==
    IF t = <<>> THEN <<>>
    ELSE BigMulSmallAdd(DecimalValue(SubSeq(t, 1, Len(t) - 1)), 10,
                        DigitVal(t[Len(t)]))

PyInt(s) ==
    LET t == Strip(s)
    IN  IF t = <<>> \/ \E i \in 1..Len(t) : ~IsDigit(t[i])
        THEN None
        ELSE Some(DecimalValue(t))

\* ------------------------------------------------------------------------
\* Program constants
\* ------------------------------------------------------------------------
MICROS_WRAP == BigMul(BigOfNat(65536), BigOfNat(65536))
WRAP_THRESHOLD_US == BigOfNat(1000 * 1000)

\* the dictionary keys of events, last_raw_ts and wrap_accum
Devices == {"A", "B"}
Other(d) == IF d = "A" THEN "B" ELSE "A"

\* d[k] = v on a dict d
DictPut(d, k, v) == [x \in DOMAIN d \cup {k} |-> IF x = k THEN v ELSE d[x]]

\* ------------------------------------------------------------------------
\* Signed integers and exact rationals (the idealisation of Python floats)
\* ------------------------------------------------------------------------
SInt(neg, mag) == [neg |-> neg /\ mag # <<>>, mag |-> mag]
SOfBig(a) == SInt(FALSE, a)
SNeg(x) == SInt(~x.neg, x.mag)

SAdd(x, y) ==
    IF x.neg = y.neg THEN SInt(x.neg, BigAdd(x.mag, y.mag))
    ELSE IF BigLess(x.mag, y.mag) THEN SInt(y.neg, BigSub(y.mag, x.mag))
    ELSE SInt(x.neg, BigSub(x.mag, y.mag))

SSub(x, y) == SAdd(x, SNeg(y))
SMul(x, y) == SInt(x.neg # y.neg, BigMul(x.mag, y.mag))

\* A rational is num / (the product of the factors of den), where den is a
\* bag of naturals > 1, kept as an ascending sequence with repetitions.
\* Keeping the denominator factored lets sums and quotients cancel the
\* factors two numbers share; fractions are not reduced further, so equality
\* of values is RatEq.
EmptyBag == <<>>
BagHas(p, x) == \E i \in 1..Len(p) : p[i] = x
RECURSIVE BagRemove(_, _)
BagRemove(p, x) ==
    IF p = <<>> THEN <<>>
    ELSE IF Head(p) = x THEN Tail(p)
    ELSE <<Head(p)>> \o BagRemove(Tail(p), x)
RECURSIVE BagInsert(_, _)
BagInsert(p, x) ==
    IF p = <<>> THEN <<x>>
    ELSE IF BigLeq(x, Head(p)) THEN <<x>> \o p
    ELSE <<Head(p)>> \o BagInsert(Tail(p), x)
RECURSIVE BagMinus(_, _)
BagMinus(p, q) == IF q = <<>> THEN p ELSE BagMinus(BagRemove(p, Head(q)), Tail(q))
RECURSIVE BagSum(_, _)
BagSum(p, q) == IF q = <<>> THEN p ELSE BagSum(BagInsert(p, Head(q)), Tail(q))
BagMax(p, q) == IF p = q THEN p ELSE BagSum(p, BagMinus(q, p))
BagMin(p, q) == IF p = q THEN p ELSE BagMinus(p, BagMinus(p, q))
BagSingle(x) == IF x = <<1>> THEN <<>> ELSE <<x>>
RECURSIVE BagProduct(_)
BagProduct(p) == IF p = <<>> THEN <<1>> ELSE BigMul(Head(p), BagProduct(Tail(p)))

Rat(num, den) == [num |-> num, den |-> IF num.mag = <<>> THEN EmptyBag ELSE den]
RatOfBig(a) == Rat(SOfBig(a), EmptyBag)
RatAdd(p, q) ==
    LET den == BagMax(p.den, q.den)
    IN  Rat(SAdd(SMul(p.num, SOfBig(BagProduct(BagMinus(den, p.den)))),
                 SMul(q.num, SOfBig(BagProduct(BagMinus(den, q.den))))),
            den)
RatNeg(p) == Rat(SNeg(p.num), p.den)
RatSub(p, q) == RatAdd(p, RatNeg(q))
\* p / q for q # 0
RatDiv(p, q) ==
    LET common == BagMin(p.den, q.den)
    IN  Rat(SInt(p.num.neg # q.num.neg,
                 BigMul(p.num.mag, BagProduct(BagMinus(q.den, common)))),
            BagSum(BagMinus(p.den, common), BagSingle(q.num.mag)))
\* a numerator that is a factor of the other denominator is cancelled
RatMul(p, q) ==
    LET neg == p.num.neg # q.num.neg
    IN  IF BagHas(p.den, q.num.mag)
        THEN Rat(SInt(neg, p.num.mag),
                 BagSum(BagMinus(p.den, BagSingle(q.num.mag)), q.den))
        ELSE IF BagHas(q.den, p.num.mag)
        THEN Rat(SInt(neg, q.num.mag),
                 BagSum(BagMinus(q.den, BagSingle(p.num.mag)), p.den))
        ELSE Rat(SMul(p.num, q.num), BagSum(p.den, q.den))
RatEq(p, q) ==
    SMul(p.num, SOfBig(BagProduct(q.den))) = SMul(q.num, SOfBig(BagProduct(p.den)))
RatIsZero(p) == p.num.mag = <<>>

Million == RatOfBig(BigOfNat(1000 * 1000))
One == RatOfBig(<<1>>)

RECURSIVE RatSum(_)
RatSum(xs) == IF xs = <<>> THEN RatOfBig(<<>>) ELSE RatAdd(Head(xs), RatSum(Tail(xs)))

\* ------------------------------------------------------------------------
\* fit_esp_to_pc (new1.py:92-102)
\* ------------------------------------------------------------------------
\* np.linalg.lstsq(A, y)[0] for A = [x, 1]: the least-squares line through
\* the points, and, where every x is the same (A has rank 1), the solution
\* of least norm.  The third component of the result, rmse, is dropped by
\* both callers and is not modelled.
FitEspToPc(us_list, pc_list) ==
    LET n  == RatOfBig(BigOfNat(Len(us_list)))
        x  == SeqOf([i \in 1..Len(us_list) |->
                       RatDiv(RatOfBig(us_list[i]), Million)])
        y  == SeqOf([i \in 1..Len(pc_list) |-> pc_list[i]])
        sx == RatSum(x)
        sy == RatSum(y)
        sxx == RatSum(SeqOf([i \in 1..Len(x) |-> RatMul(x[i], x[i])]))
        sxy == RatSum(SeqOf([i \in 1..Len(x) |-> RatMul(x[i], y[i])]))
        var == RatSub(RatMul(n, sxx), RatMul(sx, sx))
        cov == RatSub(RatMul(n, sxy), RatMul(sx, sy))
        c   == x[1]
        w   == RatAdd(RatMul(c, c), One)
    IN  IF RatIsZero(var)
        THEN <<RatDiv(RatMul(RatDiv(sy, n), c), w), RatDiv(RatDiv(sy, n), w)>>
        ELSE LET a == RatDiv(cov, var)
             IN  <<a, RatDiv(RatSub(sy, RatMul(a, sx)), n)>>

\* ------------------------------------------------------------------------
\* Bounds of the model
\* ------------------------------------------------------------------------
\* connections accepted in a session
MaxConns == 2
\* samples accepted in a session
MaxSamples == 5
\* samples accepted in a session of SpecHist, SpecOffset, SpecPair, SpecWrap,
\* SpecProto and SpecReg
HistSamples == 6
OffsetSamples == 4
PairSamples == 4
WrapSamples == 5
ProtoSamples == 3
RegSamples == 4

\* CALIB_SAMPLES (new1.py:46, 20 in the program) and RESID_WINDOW
\* (new1.py:60, 500 in the program) are scaled down; nothing below depends
\* on their values.
CALIB_SAMPLES == 2
RESID_WINDOW == 2

\* time.monotonic() advances by one of these numbers of microseconds
\* between two readings
ClockSteps == {1, 2}

\* a reading of time.monotonic(), in seconds
Seconds(us) == RatDiv(RatOfBig(BigOfNat(us)), Million)

\* ------------------------------------------------------------------------
\* State (new1.py:20-24, 30-40, 46-54, 60-64, 73-74)
\* ------------------------------------------------------------------------
VARIABLES
    sockets,                \* the accepted connections
    device_id,              \* connection -> registered id (text)
    events,                 \* device -> (event_no -> corrected timestamp)
    event_PC,               \* event_no -> host time of its last pairing
    calib_A, calib_B, calib_PC, calib_count, calibration_done,
    a1, b1, a2, b2,         \* the fitted models, None until the fit
    residA_us_history, residB_us_history,
    netdelayA_us_history, netdelayB_us_history,
    last_raw_ts, wrap_accum,
    csv_rows,               \* the rows written to sync_data.csv
    clock,                  \* the last reading of time.monotonic(), in us
    pc,                     \* "running", or "crashed" after an uncaught exception
    accepted,               \* the last sample printed as stored (new1.py:256)
    pairs,                  \* the pairings printed so far (new1.py:186-192)
    nsamples,               \* the samples accepted so far
    nstored                 \* device -> (event_no -> the times new1.py:255 stored it)

vars == <<sockets, device_id, events, event_PC, calib_A, calib_B, calib_PC,
          calib_count, calibration_done, a1, b1, a2, b2, residA_us_history,
          residB_us_history, netdelayA_us_history, netdelayB_us_history,
          last_raw_ts, wrap_accum, csv_rows, clock, pc, accepted, pairs,
          nsamples, nstored>>

\* the state as one record, for the operators that model the functions
State ==
    [sockets |-> sockets, device_id |-> device_id, events |-> events,
     event_PC |-> event_PC, calib_A |-> calib_A, calib_B |-> calib_B,
     calib_PC |-> calib_PC, calib_count |-> calib_count,
     calibration_done |-> calibration_done,
     a1 |-> a1, b1 |-> b1, a2 |-> a2, b2 |-> b2,
     residA_us_history |-> residA_us_history,
     residB_us_history |-> residB_us_history,
     netdelayA_us_history |-> netdelayA_us_history,
     netdelayB_us_history |-> netdelayB_us_history,
     last_raw_ts |-> last_raw_ts, wrap_accum |-> wrap_accum,
     csv_rows |-> csv_rows, clock |-> clock, pc |-> pc,
     accepted |-> accepted, pairs |-> pairs, nsamples |-> nsamples,
     nstored |-> nstored]

Install(st) ==
    /\ sockets' = st.sockets
    /\ device_id' = st.device_id
    /\ events' = st.events
    /\ event_PC' = st.event_PC
    /\ calib_A' = st.calib_A
    /\ calib_B' = st.calib_B
    /\ calib_PC' = st.calib_PC
    /\ calib_count' = st.calib_count
    /\ calibration_done' = st.calibration_done
    /\ a1' = st.a1
    /\ b1' = st.b1
    /\ a2' = st.a2
    /\ b2' = st.b2
    /\ residA_us_history' = st.residA_us_history
    /\ residB_us_history' = st.residB_us_history
    /\ netdelayA_us_history' = st.netdelayA_us_history
    /\ netdelayB_us_history' = st.netdelayB_us_history
    /\ last_raw_ts' = st.last_raw_ts
    /\ wrap_accum' = st.wrap_accum
    /\ csv_rows' = st.csv_rows
    /\ clock' = st.clock
    /\ pc' = st.pc
    /\ accepted' = st.accepted
    /\ pairs' = st.pairs
    /\ nsamples' = st.nsamples
    /\ nstored' = st.nstored

Init ==
    /\ sockets = {}
    /\ device_id = <<>>
    /\ events = [d \in Devices |-> <<>>]
    /\ event_PC = <<>>
    /\ calib_A = <<>>
    /\ calib_B = <<>>
    /\ calib_PC = <<>>
    /\ calib_count = 0
    /\ calibration_done = FALSE
    /\ a1 = None
    /\ b1 = None
    /\ a2 = None
    /\ b2 = None
    /\ residA_us_history = <<>>
    /\ residB_us_history = <<>>
    /\ netdelayA_us_history = <<>>
    /\ netdelayB_us_history = <<>>
    /\ last_raw_ts = [d \in Devices |-> None]
    /\ wrap_accum = [d \in Devices |-> <<>>]
    /\ csv_rows = <<>>
    /\ clock = 0
    /\ pc = "running"
    /\ accepted = None
    /\ pairs = <<>>
    /\ nsamples = 0
    /\ nstored = [d \in Devices |-> <<>>]

\* an uncaught exception ends the process
Raise(st, exc) == [st EXCEPT !.pc = "crashed"]

\* ------------------------------------------------------------------------
\* fix_wraparound (new1.py:76-86): the state after the call, and in ret the
\* value returned
\* ------------------------------------------------------------------------
\* Variants of the test of new1.py:82 that the properties of fix_wraparound
\* must tell from it: a backward jump of one more than the threshold is not
\* taken for a wrap; a backward jump of exactly the threshold is.
WrappedAboveNext(last, ts_raw) ==
    /\ BigLess(ts_raw, last)
    /\ BigLess(BigAdd(WRAP_THRESHOLD_US, <<1>>), BigSub(last, ts_raw))
WrappedAtThreshold(last, ts_raw) ==
    /\ BigLess(ts_raw, last)
    /\ BigLeq(WRAP_THRESHOLD_US, BigSub(last, ts_raw))

\* the test of new1.py:82
Wrapped(last, ts_raw) ==
    /\ BigLess(ts_raw, last)
    /\ BigLess(WRAP_THRESHOLD_US, BigSub(last, ts_raw))

\* A variant of fix_wraparound that forgets the accumulated wraps on an
\* observation that is no wrap.
FixWraparoundForgets(st, dev, ts_raw) ==
    LET last == st.last_raw_ts[dev]
    IN  IF last = None
        THEN [st |-> [st EXCEPT !.last_raw_ts[dev] = Some(ts_raw)], ret |-> ts_raw]
        ELSE LET accum == IF Wrapped(Val(last), ts_raw)
                          THEN BigAdd(st.wrap_accum[dev], MICROS_WRAP)
                          ELSE <<>>
             IN  [st |-> [st EXCEPT !.wrap_accum[dev] = accum,
                                    !.last_raw_ts[dev] = Some(ts_raw)],
                  ret |-> BigAdd(ts_raw, accum)]

\* A variant of fix_wraparound that remembers the corrected timestamp
\* instead of the raw one.
FixWraparoundKeepsCorrected(st, dev, ts_raw) ==
    LET last == st.last_raw_ts[dev]
    IN  IF last = None
        THEN [st |-> [st EXCEPT !.last_raw_ts[dev] = Some(ts_raw)], ret |-> ts_raw]
        ELSE LET accum == IF Wrapped(Val(last), ts_raw)
                          THEN BigAdd(st.wrap_accum[dev], MICROS_WRAP)
                          ELSE st.wrap_accum[dev]
             IN  [st |-> [st EXCEPT !.wrap_accum[dev] = accum,
                                    !.last_raw_ts[dev] = Some(BigAdd(ts_raw, accum))],
                  ret |-> BigAdd(ts_raw, accum)]

FixWraparound(st, dev, ts_raw) ==
    LET last == st.last_raw_ts[dev]
    IN  IF last = None
        THEN [st |-> [st EXCEPT !.last_raw_ts[dev] = Some(ts_raw)], ret |-> ts_raw]
        ELSE LET accum == IF Wrapped(Val(last), ts_raw)
                          THEN BigAdd(st.wrap_accum[dev], MICROS_WRAP)
                          ELSE st.wrap_accum[dev]
             IN  [st |-> [st EXCEPT !.wrap_accum[dev] = accum,
                                    !.last_raw_ts[dev] = Some(ts_raw)],
                  ret |-> BigAdd(ts_raw, accum)]

\* A variant of deque.append that, when the deque is full, drops the new
\* value instead of the oldest.
DequeAppendKeepsOldest(h, x) ==
    IF Len(h) >= RESID_WINDOW THEN h ELSE Append(h, x)

\* deque(maxlen=RESID_WINDOW).append (new1.py:61-64, 122-125)
DequeAppend(h, x) ==
    IF Len(h) >= RESID_WINDOW THEN Append(Tail(h), x) ELSE Append(h, x)

\* ------------------------------------------------------------------------
\* compute_metrics (new1.py:108-144)
\* ------------------------------------------------------------------------
\* a * (t_us / 1e6) + b (new1.py:111-112)
Corrected(a, b, t_us) == RatAdd(RatMul(a, RatDiv(RatOfBig(t_us), Million)), b)

\* (t_corr - tPC_s) * 1e6 (new1.py:114-115)
Resid(t_corr, tPC_s) == RatMul(RatSub(t_corr, tPC_s), Million)

\* A variant of the net delay that is 1 us off.
NetDelayOff(tPC_s, t_corr) ==
    RatAdd(RatMul(RatSub(tPC_s, t_corr), Million), One)

\* (tPC_s - t_corr) * 1e6 (new1.py:117-118)
NetDelay(tPC_s, t_corr) == RatMul(RatSub(tPC_s, t_corr), Million)

\* A variant of the offset: B minus A.
OffsetReversed(tA_corr, tB_corr) == RatMul(RatSub(tB_corr, tA_corr), Million)

\* (tA_corr - tB_corr) * 1e6 (new1.py:120)
Offset(tA_corr, tB_corr) == RatMul(RatSub(tA_corr, tB_corr), Million)

ComputeMetrics(st, event_no, tA_us, tB_us, tPC_s) ==
    IF st.a1 = None \/ st.b1 = None \/ st.a2 = None \/ st.b2 = None
    THEN Raise(st, "TypeError")
    ELSE
    LET m1 == Val(st.a1)
        c1 == Val(st.b1)
        m2 == Val(st.a2)
        c2 == Val(st.b2)
        tA_corr == Corrected(m1, c1, tA_us)
        tB_corr == Corrected(m2, c2, tB_us)
        residA_us == Resid(tA_corr, tPC_s)
        residB_us == Resid(tB_corr, tPC_s)
        netdelayA_us == NetDelay(tPC_s, tA_corr)
        netdelayB_us == NetDelay(tPC_s, tB_corr)
        offset_us == Offset(tA_corr, tB_corr)
        driftA_ppm == RatMul(RatSub(m1, One), Million)
        driftB_ppm == RatMul(RatSub(m2, One), Million)
        relative_drift_ppm == RatMul(RatSub(m2, m1), Million)
        row == [event_no |-> event_no,
                tA_corr_s |-> tA_corr, tB_corr_s |-> tB_corr,
                offset_us |-> offset_us,
                netdelayA_us |-> netdelayA_us, netdelayB_us |-> netdelayB_us,
                residA_us |-> residA_us, residB_us |-> residB_us,
                driftA_ppm |-> driftA_ppm, driftB_ppm |-> driftB_ppm,
                relative_drift_ppm |-> relative_drift_ppm]
    IN  [st EXCEPT
           !.residA_us_history = DequeAppend(@, residA_us),
           !.residB_us_history = DequeAppend(@, residB_us),
           !.netdelayA_us_history = DequeAppend(@, netdelayA_us),
           !.netdelayB_us_history = DequeAppend(@, netdelayB_us),
           !.csv_rows = Append(@, row)]

\* ------------------------------------------------------------------------
\* process_calibration_and_apply (new1.py:150-175)
\* ------------------------------------------------------------------------
\* A variant of the calibration phase that fits device B's model to device
\* A's timestamps.
CalibrateCoupled(st, tA_us, tB_us, tPC_s) ==
    LET acc == [st EXCEPT !.calib_A = Append(@, tA_us),
                          !.calib_B = Append(@, tB_us),
                          !.calib_PC = Append(@, tPC_s),
                          !.calib_count = @ + 1]
    IN  IF acc.calib_count >= CALIB_SAMPLES
        THEN LET fitA == FitEspToPc(acc.calib_A, acc.calib_PC)
                 fitB == FitEspToPc(acc.calib_A, acc.calib_PC)
             IN  [acc EXCEPT !.a1 = Some(fitA[1]), !.b1 = Some(fitA[2]),
                             !.a2 = Some(fitB[1]), !.b2 = Some(fitB[2]),
                             !.calibration_done = TRUE]
        ELSE acc

\* A variant of the calibration phase that fits and freezes one sample late.
CalibrateFreezesLate(st, tA_us, tB_us, tPC_s) ==
    LET acc == [st EXCEPT !.calib_A = Append(@, tA_us),
                          !.calib_B = Append(@, tB_us),
                          !.calib_PC = Append(@, tPC_s),
                          !.calib_count = @ + 1]
    IN  IF acc.calib_count > CALIB_SAMPLES
        THEN LET fitA == FitEspToPc(acc.calib_A, acc.calib_PC)
                 fitB == FitEspToPc(acc.calib_B, acc.calib_PC)
             IN  [acc EXCEPT !.a1 = Some(fitA[1]), !.b1 = Some(fitA[2]),
                             !.a2 = Some(fitB[1]), !.b2 = Some(fitB[2]),
                             !.calibration_done = TRUE]
        ELSE acc

\* the calibration phase (new1.py:153-172)
Calibrate(st, tA_us, tB_us, tPC_s) ==
    LET acc == [st EXCEPT !.calib_A = Append(@, tA_us),
                          !.calib_B = Append(@, tB_us),
                          !.calib_PC = Append(@, tPC_s),
                          !.calib_count = @ + 1]
    IN  IF acc.calib_count >= CALIB_SAMPLES
        THEN LET fitA == FitEspToPc(acc.calib_A, acc.calib_PC)
                 fitB == FitEspToPc(acc.calib_B, acc.calib_PC)
             IN  [acc EXCEPT !.a1 = Some(fitA[1]), !.b1 = Some(fitA[2]),
                             !.a2 = Some(fitB[1]), !.b2 = Some(fitB[2]),
                             !.calibration_done = TRUE]
        ELSE acc

\* Variants of process_calibration_and_apply: one fits and freezes the models
\* at the first pairing, one goes on feeding the fitter after the freeze, one
\* computes metrics from the pairing that completes the calibration on.
ProcessFreezesEarly(st, event_no, tA_us, tB_us, tPC_s) ==
    IF ~st.calibration_done
    THEN LET acc == Calibrate(st, tA_us, tB_us, tPC_s)
             fitA == FitEspToPc(acc.calib_A, acc.calib_PC)
             fitB == FitEspToPc(acc.calib_B, acc.calib_PC)
         IN  [acc EXCEPT !.a1 = Some(fitA[1]), !.b1 = Some(fitA[2]),
                         !.a2 = Some(fitB[1]), !.b2 = Some(fitB[2]),
                         !.calibration_done = TRUE]
    ELSE ComputeMetrics(st, event_no, tA_us, tB_us, tPC_s)
ProcessRefits(st, event_no, tA_us, tB_us, tPC_s) ==
    IF ~st.calibration_done
    THEN Calibrate(st, tA_us, tB_us, tPC_s)
    ELSE ComputeMetrics(Calibrate(st, tA_us, tB_us, tPC_s),
                        event_no, tA_us, tB_us, tPC_s)
ProcessMetricsAtFreeze(st, event_no, tA_us, tB_us, tPC_s) ==
    IF st.calib_count + 1 < CALIB_SAMPLES
    THEN Calibrate(st, tA_us, tB_us, tPC_s)
    ELSE ComputeMetrics(st, event_no, tA_us, tB_us, tPC_s)

\* A variant that computes the metrics of an event number once only.
ProcessOneRowPerEvent(st, event_no, tA_us, tB_us, tPC_s) ==
    IF ~st.calibration_done
    THEN Calibrate(st, tA_us, tB_us, tPC_s)
    ELSE IF \E i \in 1..Len(st.csv_rows) : st.csv_rows[i].event_no = event_no
         THEN st
         ELSE ComputeMetrics(st, event_no, tA_us, tB_us, tPC_s)

ProcessCalibrationAndApply(st, event_no, tA_us, tB_us, tPC_s) ==
    IF ~st.calibration_done
    THEN Calibrate(st, tA_us, tB_us, tPC_s)
    ELSE ComputeMetrics(st, event_no, tA_us, tB_us, tPC_s)

\* ------------------------------------------------------------------------
\* try_compute (new1.py:181-194); now is what time.monotonic() returns
\* ------------------------------------------------------------------------
\* A variant of try_compute that pairs an event once only.
TryComputeOnce(st, event_no, now) ==
    IF /\ event_no \in DOMAIN st.events["A"]
       /\ event_no \in DOMAIN st.events["B"]
       /\ event_no \notin DOMAIN st.event_PC
    THEN LET tA == st.events["A"][event_no]
             tB == st.events["B"][event_no]
             tPC == Seconds(now)
         IN  ProcessCalibrationAndApply(
                 [st EXCEPT !.clock = now,
                            !.event_PC = DictPut(@, event_no, tPC),
                            !.pairs = Append(@, [event_no |-> event_no, tA |-> tA,
                                                 tB |-> tB, tPC |-> tPC])],
                 event_no, tA, tB, tPC)
    ELSE st

\* A variant of try_compute that takes each device's timestamp for the
\* other's.
TryComputeSwapped(st, event_no, now) ==
    IF event_no \in DOMAIN st.events["A"] /\ event_no \in DOMAIN st.events["B"]
    THEN LET tA == st.events["B"][event_no]
             tB == st.events["A"][event_no]
             tPC == Seconds(now)
         IN  ProcessCalibrationAndApply(
                 [st EXCEPT !.clock = now,
                            !.event_PC = DictPut(@, event_no, tPC),
                            !.pairs = Append(@, [event_no |-> event_no, tA |-> tA,
                                                 tB |-> tB, tPC |-> tPC])],
                 event_no, tA, tB, tPC)
    ELSE st

TryCompute(st, event_no, now) ==
    IF event_no \in DOMAIN st.events["A"] /\ event_no \in DOMAIN st.events["B"]
    THEN LET tA == st.events["A"][event_no]
             tB == st.events["B"][event_no]
             tPC == Seconds(now)
         IN  ProcessCalibrationAndApply(
                 [st EXCEPT !.clock = now,
                            !.event_PC = DictPut(@, event_no, tPC),
                            !.pairs = Append(@, [event_no |-> event_no, tA |-> tA,
                                                 tB |-> tB, tPC |-> tPC])],
                 event_no, tA, tB, tPC)
    ELSE st

\* A variant of the prefix check that lets every letter pass.
MismatchedNever(prefix, dev) == FALSE

\* the prefix check of new1.py:247
Mismatched(prefix, dev) == <<prefix[2]>> # dev

\* ------------------------------------------------------------------------
\* The body of the main loop for one complete line of connection s
\* (new1.py:218-258); now is what time.monotonic() returns if it is called
\* ------------------------------------------------------------------------
\* A variant of the store that keeps the latest event of a device only.
StoreEvicts(st, d, event_no, raw_us, ts_val) ==
    [st EXCEPT !.events[d] = DictPut(<<>>, event_no, ts_val),
               !.accepted = Some([dev |-> d, event_no |-> event_no,
                                  raw_us |-> raw_us, ts_val |-> ts_val]),
               !.nsamples = @ + 1,
               !.nstored[d] = DictPut(@, event_no,
                                      IF event_no \in DOMAIN @ THEN @[event_no] + 1
                                      ELSE 1)]

\* A variant of the store that keeps the value a key already has.
StoreKeepsFirst(st, d, event_no, raw_us, ts_val) ==
    [st EXCEPT !.events[d] = IF event_no \in DOMAIN @ THEN @
                             ELSE DictPut(@, event_no, ts_val),
               !.accepted = Some([dev |-> d, event_no |-> event_no,
                                  raw_us |-> raw_us, ts_val |-> ts_val]),
               !.nsamples = @ + 1,
               !.nstored[d] = DictPut(@, event_no,
                                      IF event_no \in DOMAIN @ THEN @[event_no] + 1
                                      ELSE 1)]

\* events[dev][event_no] = ts_val and the line printed for it (new1.py:255-256)
Store(st, d, event_no, raw_us, ts_val) ==
    [st EXCEPT !.events[d] = DictPut(@, event_no, ts_val),
               !.accepted = Some([dev |-> d, event_no |-> event_no,
                                  raw_us |-> raw_us, ts_val |-> ts_val]),
               !.nsamples = @ + 1,
               !.nstored[d] = DictPut(@, event_no,
                                      IF event_no \in DOMAIN @ THEN @[event_no] + 1
                                      ELSE 1)]

HandleLine(st, s, raw_line, now) ==
    LET line == Strip(raw_line)
    IN  IF StartsWith(line, <<"I", "D", ":">>)
        THEN [st EXCEPT !.device_id =
                 DictPut(@, s, Strip(SplitSecond(line, <<"I", "D", ":">>)))]
        ELSE IF s \notin DOMAIN st.device_id
        THEN st
        ELSE IF ~(StartsWith(line, <<"t", "A">>) \/ StartsWith(line, <<"t", "B">>))
                \/ ~Contains(line, <<"=">>)
        THEN st
        ELSE
        LET dev == st.device_id[s]
            left == SplitOnce(line, <<"=">>)[1]
            ts_str == SplitOnce(line, <<"=">>)[2]
            prefix == SubSeq(left, 1, 2)
            event_no == PyInt(SubSeq(left, 3, Len(left)))
            ts_val == PyInt(ts_str)
        IN  IF event_no = None \/ ts_val = None
            THEN Raise(st, "ValueError")
            ELSE IF Mismatched(prefix, dev)
            THEN st
            ELSE
            LET d == dev[1]
                fix == FixWraparound(st, d, Val(ts_val))
                stored == Store(fix.st, d, Val(event_no), Val(ts_val), fix.ret)
            IN  TryCompute(stored, Val(event_no), now)

\* ------------------------------------------------------------------------
\* The lines the devices send
\* ------------------------------------------------------------------------
EventLine(letter, event_text, ts_text) ==
    <<"t", letter>> \o event_text \o <<"=">> \o ts_text

\* 2^32 - 6
TsHigh == <<"4", "2", "9", "4", "9", "6", "7", "2", "9", "0">>
TsLow == <<"1", "0", "0">>

\* 1000, 999 and 1001000: backward jumps of 1, of the threshold, and of one
\* more than the threshold
Ts999 == <<"9", "9", "9">>
Ts1000 == <<"1", "0", "0", "0">>
Ts1001000 == <<"1", "0", "0", "1", "0", "0", "0">>

SampleLines(letters, event_texts, ts_texts) ==
    {EventLine(l, e, t) : l \in letters, e \in event_texts, t \in ts_texts}

IdLine(letter) == <<"I", "D", ":", letter, "\r">>

\* odd connections are device A's, even ones device B's
DeviceOf(s) == IF s % 2 = 1 THEN "A" ELSE "B"

\* accepted by neither device, without an exception
InvalidLines ==
    { <<"t", "A", "1">>,                       \* no '='
      <<"x", "=", "1">> }                      \* starts with neither tA nor tB
\* int() raises ValueError
CrashLines ==
    { <<"t", "A", "x", "=", "1", "0", "0">>,   \* event number is no integer
      <<"t", "B", "1", "=", "x">>,             \* timestamp is no integer
      <<"t", "A", "=", "1", "0", "0">> }       \* no event number

\* Spec: each device registers under its own id and sends samples of one
\* event with either letter, and lines that are no samples
Lines(s) ==
    {IdLine(DeviceOf(s)), <<"x", "=", "1">>}
        \cup SampleLines({"A", "B"}, {<<"1">>}, {TsLow, TsHigh})

\* SpecHist: a longer session of one event, in which only device A's counter
\* wraps
HistLines(s) ==
    {IdLine(DeviceOf(s))}
        \cup SampleLines({DeviceOf(s)}, {<<"1">>},
                         IF DeviceOf(s) = "A" THEN {TsLow, TsHigh} ELSE {TsLow})

\* SpecOffset: a session with consistent clocks.  It starts when the devices
\* have sent CalibLines: the events 1 and 2 with the device timestamps 1 us
\* and 2 us, paired at the host times 1 us and 2 us, which fits slope 1 and
\* intercept 0 for both devices.  Then the devices send event 21 with the
\* timestamps 21000000 (A) and 21000050 (B), and event 22 with 22000100 (A)
\* and 22000000 (B).
Ts21000000 == <<"2", "1", "0", "0", "0", "0", "0", "0">>
Ts21000050 == <<"2", "1", "0", "0", "0", "0", "5", "0">>
Ts22000000 == <<"2", "2", "0", "0", "0", "0", "0", "0">>
Ts22000100 == <<"2", "2", "0", "0", "0", "1", "0", "0">>
CalibLines ==
    << <<1, IdLine("A")>>, <<2, IdLine("B")>>,
       <<1, EventLine("A", <<"1">>, <<"1">>)>>,
       <<2, EventLine("B", <<"1">>, <<"1">>)>>,
       <<1, EventLine("A", <<"2">>, <<"2">>)>>,
       <<2, EventLine("B", <<"2">>, <<"2">>)>> >>
OffsetLines(s) ==
    {IdLine(DeviceOf(s)),
     EventLine(DeviceOf(s), <<"2", "1">>,
               IF DeviceOf(s) = "A" THEN Ts21000000 ELSE Ts21000050),
     EventLine(DeviceOf(s), <<"2", "2">>,
               IF DeviceOf(s) = "A" THEN Ts22000100 ELSE Ts22000000)}

\* SpecPair: two events; only device A's counter wraps
PairLines(s) ==
    {IdLine(DeviceOf(s))}
        \cup SampleLines({DeviceOf(s)}, {<<"1">>, <<"0", "2">>},
                         IF DeviceOf(s) = "A" THEN {TsLow, TsHigh} ELSE {TsLow})

\* SpecWrap: the devices send different events, so that nothing is paired,
\* with timestamps around the wraparound threshold
WrapLines(s) ==
    {IdLine(DeviceOf(s))}
        \cup SampleLines({DeviceOf(s)},
                         {IF DeviceOf(s) = "A" THEN <<"1">> ELSE <<"2">>},
                         {TsLow, Ts999, Ts1000, Ts1001000, TsHigh})

\* SpecReg: a device registers on any connection, again on the same one or
\* on a new one
RegLines(s) ==
    {IdLine("A"), IdLine("B")}
        \cup SampleLines({"A", "B"}, {<<"1">>}, {TsLow, TsHigh})

\* SpecProto: any connection registers under any id and sends any line
ProtoLines(s) ==
    {IdLine("A"), IdLine("B"), IdLine("C")}
        \cup SampleLines({"A", "B"}, {<<"1">>}, {TsLow})
        \cup InvalidLines \cup CrashLines

\* ------------------------------------------------------------------------
\* Actions
\* ------------------------------------------------------------------------
\* server.accept() (new1.py:204-210)
Accept ==
    /\ pc = "running"
    /\ Cardinality(sockets) < MaxConns
    /\ sockets' = sockets \cup {Cardinality(sockets) + 1}
    /\ UNCHANGED <<device_id, events, event_PC, calib_A, calib_B, calib_PC,
                   calib_count, calibration_done, a1, b1, a2, b2,
                   residA_us_history, residB_us_history, netdelayA_us_history,
                   netdelayB_us_history, last_raw_ts, wrap_accum, csv_rows,
                   clock, pc, accepted, pairs, nsamples, nstored>>

\* one complete line of connection s is processed (new1.py:218-258); steps
\* are the advances of the host clock and max the samples of the session
Line(s, line, steps, max) ==
    /\ pc = "running"
    /\ \E step \in steps :
         \E st \in {HandleLine(State, s, line, clock + step)} :
            /\ st.nsamples <= max
            /\ Install(st)

Next ==
    \/ Accept
    \/ \E s \in sockets : \E line \in Lines(s) : Line(s, line, {1}, MaxSamples)

Spec == Init /\ [][Next]_vars

NextHist ==
    \/ Accept
    \/ \E s \in sockets : \E line \in HistLines(s) : Line(s, line, {1}, HistSamples)

SpecHist == Init /\ [][NextHist]_vars

\* the state after start-up, as a record
Fresh ==
    [sockets |-> {}, device_id |-> <<>>, events |-> [d \in Devices |-> <<>>],
     event_PC |-> <<>>, calib_A |-> <<>>, calib_B |-> <<>>, calib_PC |-> <<>>,
     calib_count |-> 0, calibration_done |-> FALSE,
     a1 |-> None, b1 |-> None, a2 |-> None, b2 |-> None,
     residA_us_history |-> <<>>, residB_us_history |-> <<>>,
     netdelayA_us_history |-> <<>>, netdelayB_us_history |-> <<>>,
     last_raw_ts |-> [d \in Devices |-> None],
     wrap_accum |-> [d \in Devices |-> <<>>],
     csv_rows |-> <<>>, clock |-> 0, pc |-> "running",
     accepted |-> None, pairs |-> <<>>, nsamples |-> 0,
     nstored |-> [d \in Devices |-> <<>>]]

\* the state (a set of one) after two connections are accepted and send the
\* lines of a sequence of <<connection, line>>, the host clock advancing by
\* 1 us a line
RECURSIVE After(_)
After(lines) ==
    IF lines = <<>> THEN {[Fresh EXCEPT !.sockets = {1, 2}]}
    ELSE {HandleLine(st, lines[Len(lines)][1], lines[Len(lines)][2], st.clock + 1) :
            st \in After(SubSeq(lines, 1, Len(lines) - 1))}

InitOffset ==
    \E st \in After(CalibLines) :
        /\ sockets = st.sockets
        /\ device_id = st.device_id
        /\ events = st.events
        /\ event_PC = st.event_PC
        /\ calib_A = st.calib_A
        /\ calib_B = st.calib_B
        /\ calib_PC = st.calib_PC
        /\ calib_count = st.calib_count
        /\ calibration_done = st.calibration_done
        /\ a1 = st.a1
        /\ b1 = st.b1
        /\ a2 = st.a2
        /\ b2 = st.b2
        /\ residA_us_history = st.residA_us_history
        /\ residB_us_history = st.residB_us_history
        /\ netdelayA_us_history = st.netdelayA_us_history
        /\ netdelayB_us_history = st.netdelayB_us_history
        /\ last_raw_ts = st.last_raw_ts
        /\ wrap_accum = st.wrap_accum
        /\ csv_rows = st.csv_rows
        /\ clock = st.clock
        /\ pc = st.pc
        /\ accepted = st.accepted
        /\ pairs = st.pairs
        /\ nsamples = st.nsamples
        /\ nstored = st.nstored

NextOffset ==
    \E s \in sockets : \E line \in OffsetLines(s) :
       Line(s, line, {1}, Len(CalibLines) - 2 + OffsetSamples)

SpecOffset == InitOffset /\ [][NextOffset]_vars

NextPair ==
    \/ Accept
    \/ \E s \in sockets : \E line \in PairLines(s) :
         Line(s, line, {1}, PairSamples)

SpecPair == Init /\ [][NextPair]_vars

NextWrap ==
    \/ Accept
    \/ \E s \in sockets : \E line \in WrapLines(s) :
         Line(s, line, ClockSteps, WrapSamples)

SpecWrap == Init /\ [][NextWrap]_vars

NextProto ==
    \/ Accept
    \/ \E s \in sockets : \E line \in ProtoLines(s) :
         Line(s, line, ClockSteps, ProtoSamples)

SpecProto == Init /\ [][NextProto]_vars

NextReg ==
    \/ Accept
    \/ \E s \in sockets : \E line \in RegLines(s) : Line(s, line, {1}, RegSamples)

SpecReg == Init /\ [][NextReg]_vars

\* ------------------------------------------------------------------------
\* Properties
\* ------------------------------------------------------------------------
\* this step stores a sample; accepted' describes it
Sampled == nsamples' = nsamples + 1

\* this step emits a pairing; it is the last of pairs'
Paired == Len(pairs') = Len(pairs) + 1 /\ SubSeq(pairs', 1, Len(pairs)) = pairs

\* the pairings of event e in a log of pairings
PairingsOf(log, e) == {i \in 1..Len(log) : log[i].event_no = e}

\* each device has stored exactly one sample of event e
Once(e) ==
    \A d \in Devices : e \in DOMAIN nstored[d] /\ nstored[d][e] = 1

\* C1: when the later of the two samples of an event that each device sends
\* once is stored, whichever device sends it and whatever was stored and
\* paired in between, no pairing of the event exists yet, and the step emits
\* one, of A's stored value and B's stored value; and as long as each device
\* has sent the event once, that pairing stays the only one of the event.
C1_PairingOrderIndependent ==
    [][\A e \in DOMAIN nstored'["A"] \cap DOMAIN nstored'["B"] :
         Once(e)' =>
           /\ ~Once(e) =>
                 /\ Sampled
                 /\ Val(accepted').event_no = e
                 /\ PairingsOf(pairs, e) = {}
                 /\ Paired
           /\ Once(e) => PairingsOf(pairs', e) = PairingsOf(pairs, e)
           /\ \E i \in 1..Len(pairs') :
                 /\ PairingsOf(pairs', e) = {i}
                 /\ pairs'[i].tA = events'["A"][e]
                 /\ pairs'[i].tB = events'["B"][e]
      ]_vars

\* event 1 was sent by B first and by A last, and event 2 was sent and
\* paired in between
C1_Witness ==
    /\ Once(<<1>>)
    /\ Once(<<2>>)
    /\ Len(pairs) = 2
    /\ pairs[1].event_no = <<2>>
    /\ pairs[2].event_no = <<1>>
    /\ Val(accepted).dev = "A"
    /\ pairs[2].tA # pairs[2].tB

\* C2: a step that stores a sample (X, e, v) leaves events[X][e] = v, v being
\* the raw timestamp plus X's wrap offset, whatever the key held before, and
\* changes no other entry; it emits a pairing if and only if the other device
\* has an entry for e, and the pairing is of the values stored for e after
\* the step; if the other device has none, no pairing is emitted and the
\* calibration and metric state is unchanged.  No other step emits a pairing.
C2_Ingest ==
    [][/\ pairs' # pairs => Sampled
       /\ Sampled =>
            LET obs == Val(accepted')
                d == obs.dev
                e == obs.event_no
            IN  /\ DOMAIN events'[d] = DOMAIN events[d] \cup {e}
                /\ events'[d][e] = BigAdd(obs.raw_us, wrap_accum'[d])
                /\ events'[d][e] = obs.ts_val
                /\ \A k \in DOMAIN events[d] \ {e} : events'[d][k] = events[d][k]
                /\ events'[Other(d)] = events[Other(d)]
                /\ IF e \in DOMAIN events[Other(d)]
                   THEN /\ Paired
                        /\ pairs'[Len(pairs')].event_no = e
                        /\ pairs'[Len(pairs')].tA = events'["A"][e]
                        /\ pairs'[Len(pairs')].tB = events'["B"][e]
                   ELSE /\ pairs' = pairs
                        /\ UNCHANGED <<event_PC, calib_A, calib_B, calib_PC,
                                       calib_count, calibration_done,
                                       a1, b1, a2, b2, residA_us_history,
                                       residB_us_history, netdelayA_us_history,
                                       netdelayB_us_history, csv_rows>>
      ]_vars

\* device A has sent event 1 twice with different values: the first pairing
\* has the first value, the second the value stored now
C2_Witness ==
    /\ <<1>> \in DOMAIN nstored["A"]
    /\ nstored["A"][<<1>>] = 2
    /\ Len(pairs) = 2
    /\ pairs[1].tA # pairs[2].tA
    /\ pairs[2].tA = events["A"][<<1>>]
    /\ Val(accepted).dev = "A"

\* 2^32, 2^32 - 6 and 1,000,000 written out, least significant limb first
Two32 == <<296, 967, 294, 4>>
Two32Minus6 == <<290, 967, 294, 4>>
OneMillion == <<0, 0, 1>>

\* C3: in a step that stores a sample of a device that was observed before,
\* if the raw timestamp is below the last raw timestamp of the device by more
\* than 1,000,000, the device's wrap offset grows by exactly 2^32 and the
\* stored value is the raw timestamp plus the new offset; after 2^32 - 6 the
\* raw timestamp 100 of a fresh device is stored as 2^32 + 100 (and 2^32 - 6
\* itself as 2^32 - 6); and the offset is always k * 2^32 for a number k of
\* wraps.
C3_WrapDetected ==
    [][Sampled =>
         LET obs == Val(accepted')
             d == obs.dev
             last == last_raw_ts[d]
         IN  /\ (/\ last # None
                 /\ BigLess(obs.raw_us, Val(last))
                 /\ BigLess(OneMillion, BigSub(Val(last), obs.raw_us)))
                  => /\ wrap_accum'[d] = BigAdd(wrap_accum[d], Two32)
                     /\ obs.ts_val = BigAdd(obs.raw_us, wrap_accum'[d])
             /\ (last = None /\ obs.raw_us = Two32Minus6)
                  => obs.ts_val = Two32Minus6
             /\ (last = Some(Two32Minus6) /\ wrap_accum[d] = <<>> /\ obs.raw_us = <<100>>)
                  => obs.ts_val = <<396, 967, 294, 4>>
             /\ \E k \in 0..nsamples :
                    wrap_accum'[d] = BigMul(BigOfNat(k), Two32)
      ]_vars

\* device A has wrapped twice: its offset is 2 * 2^32 and its raw timestamp
\* 100 was stored as 2 * 2^32 + 100
C3_Witness ==
    /\ wrap_accum["A"] = <<592, 934, 589, 8>>
    /\ accepted # None
    /\ Val(accepted).dev = "A"
    /\ Val(accepted).raw_us = <<100>>
    /\ Val(accepted).ts_val = <<692, 934, 589, 8>>

\* C4: a step that stores the first sample of a device stores the raw
\* timestamp itself and leaves the offset 0; a step that stores a raw
\* timestamp that is not below the last one, or below it by at most
\* 1,000,000, leaves the device's wrap offset unchanged and stores the raw
\* timestamp plus that offset; in particular 999 after 1000 is stored as 999,
\* and 1000 after 1001000 (a jump of exactly 1,000,000) adds no wrap.
C4_NoFalseWrap ==
    [][Sampled =>
         LET obs == Val(accepted')
             d == obs.dev
             last == last_raw_ts[d]
         IN  /\ last = None
                  => /\ wrap_accum[d] = <<>>
                     /\ wrap_accum'[d] = <<>>
                     /\ obs.ts_val = obs.raw_us
             /\ (/\ last # None
                 /\ \/ BigLeq(Val(last), obs.raw_us)
                    \/ BigLeq(BigSub(Val(last), obs.raw_us), OneMillion))
                  => /\ wrap_accum'[d] = wrap_accum[d]
                     /\ obs.ts_val = BigAdd(obs.raw_us, wrap_accum[d])
             /\ (last = Some(<<0, 1>>) /\ wrap_accum[d] = <<>> /\ obs.raw_us = <<999>>)
                  => obs.ts_val = <<999>>
             /\ (last = Some(<<0, 1, 1>>) /\ obs.raw_us = <<0, 1>>)
                  => wrap_accum'[d] = wrap_accum[d]
      ]_vars

\* device A has wrapped once, and its fourth sample, the raw timestamp 1000,
\* was stored as 2^32 + 1000: no wrap was added for it
C4_Witness ==
    /\ wrap_accum["A"] = Two32
    /\ accepted # None
    /\ Val(accepted).dev = "A"
    /\ Val(accepted).raw_us = <<0, 1>>
    /\ Val(accepted).ts_val = <<296, 968, 294, 4>>
    /\ nstored["A"][<<1>>] = 4

\* C5: no step lowers the wrap offset of a device.
C5_AccumNonDecreasing ==
    [][\A d \in Devices : BigLeq(wrap_accum[d], wrap_accum'[d])]_vars

\* device A has wrapped, it is registered on both connections, and the
\* models were fitted and applied after the wrap
C5_Witness ==
    /\ wrap_accum["A"] = Two32
    /\ DOMAIN device_id = {1, 2}
    /\ device_id[1] = <<"A">>
    /\ device_id[2] = <<"A">>
    /\ calibration_done
    /\ Len(csv_rows) = 1

\* connection s sends a data line before it has registered
Unregistered(s, line) ==
    /\ s \notin DOMAIN device_id
    /\ ~StartsWith(Strip(line), <<"I", "D", ":">>)

\* connection s, registered, sends an event line of another device's letter
WrongLetter(s, line) ==
    /\ s \in DOMAIN device_id
    /\ Len(Strip(line)) >= 2
    /\ Strip(line)[1] = "t"
    /\ <<Strip(line)[2]>> # device_id[s]

\* C11: a step that processes a data line of a connection that has not
\* registered, or an event line whose letter is not the id the connection
\* registered, changes nothing (events, last_raw_ts, wrap_accum, event_PC,
\* the calibration accumulators and models, the histories, the pairings);
\* and a step that changes events[X] stores a sample of X while a connection
\* is registered as X.
C11_RejectedLinesChangeNothing ==
    [][/\ (\E s \in sockets : \E line \in RegLines(s) :
             /\ Unregistered(s, line) \/ WrongLetter(s, line)
             /\ Line(s, line, {1}, RegSamples))
            => UNCHANGED <<events, last_raw_ts, wrap_accum, event_PC, calib_A,
                           calib_B, calib_PC, calib_count, calibration_done,
                           a1, b1, a2, b2, residA_us_history, residB_us_history,
                           netdelayA_us_history, netdelayB_us_history, pairs,
                           csv_rows, nsamples>>
       /\ \A d \in Devices :
            events'[d] # events[d] =>
              /\ Sampled
              /\ Val(accepted').dev = d
              /\ \E s \in DOMAIN device_id : device_id[s] = <<d>>
      ]_vars

\* connection 1 has not registered and connection 2 is registered as B,
\* while samples of both devices are stored and paired: a data line of
\* connection 1 and an event line tA of connection 2 are rejected here
C11_Witness ==
    /\ sockets = {1, 2}
    /\ DOMAIN device_id = {2}
    /\ device_id[2] = <<"B">>
    /\ <<1>> \in DOMAIN events["A"]
    /\ <<1>> \in DOMAIN events["B"]
    /\ Len(pairs) >= 1

\* the value a pairing has for device d
PairValue(p, d) == IF d = "A" THEN p.tA ELSE p.tB

\* C12: a step that stores a sample of an event that was paired before emits
\* a further pairing of the event: its host time is a new reading of the
\* clock, which replaces event_PC[event_no]; it has the value just stored for
\* the sending device and the value the other device stored earlier; while
\* calibration_done is false it is counted as a calibration sample, after
\* that it gets a metric record.
C12_NoDeduplication ==
    [][(Sampled /\ PairingsOf(pairs, Val(accepted').event_no) # {}) =>
         LET obs == Val(accepted')
             e == obs.event_no
             p == pairs'[Len(pairs')]
         IN  /\ Paired
             /\ p.event_no = e
             /\ e \in DOMAIN event_PC
             /\ event_PC'[e] = p.tPC
             /\ ~RatEq(event_PC'[e], event_PC[e])
             /\ \A i \in PairingsOf(pairs, e) : ~RatEq(pairs[i].tPC, p.tPC)
             /\ PairValue(p, obs.dev) = obs.ts_val
             /\ PairValue(p, Other(obs.dev)) = events[Other(obs.dev)][e]
             /\ IF calibration_done
                THEN /\ Len(csv_rows') = Len(csv_rows) + 1
                     /\ csv_rows'[Len(csv_rows')].event_no = e
                ELSE /\ calib_count' = calib_count + 1
                     /\ calib_PC' = Append(calib_PC, p.tPC)
                     /\ csv_rows' = csv_rows
      ]_vars

\* event 1 was paired four times from five samples: the pairings after the
\* first were calibration samples and metric records
C12_Witness ==
    /\ PairingsOf(pairs, <<1>>) = 1..4
    /\ calib_count = CALIB_SAMPLES
    /\ Len(csv_rows) = 4 - CALIB_SAMPLES
    /\ event_PC[<<1>>] = pairs[4].tPC
    /\ pairs[3].tA # pairs[4].tA
    /\ pairs[3].tB = pairs[4].tB

\* the state before the first pairing
Uncalibrated ==
    [State EXCEPT !.calib_A = <<>>, !.calib_B = <<>>, !.calib_PC = <<>>,
                  !.calib_count = 0, !.calibration_done = FALSE,
                  !.a1 = None, !.b1 = None, !.a2 = None, !.b2 = None]

\* the state after the pairings of a log are given to
\* process_calibration_and_apply one after the other
RECURSIVE Replay(_)
Replay(log) ==
    IF log = <<>> THEN Uncalibrated
    ELSE LET p == log[Len(log)]
         IN  ProcessCalibrationAndApply(Replay(SubSeq(log, 1, Len(log) - 1)),
                                        p.event_no, p.tA, p.tB, p.tPC)

\* the pairings that calibrated the models, with the values of device d
\* replaced: each moved by 777 us, or each replaced by its position in the log
Moved(log, d) ==
    SeqOf([i \in 1..Len(log) |->
             IF d = "A" THEN [log[i] EXCEPT !.tA = BigAdd(@, <<777>>)]
             ELSE [log[i] EXCEPT !.tB = BigAdd(@, <<777>>)]])
Numbered(log, d) ==
    SeqOf([i \in 1..Len(log) |->
             IF d = "A" THEN [log[i] EXCEPT !.tA = BigOfNat(i)]
             ELSE [log[i] EXCEPT !.tB = BigOfNat(i)]])

\* two states have the same model for device d
SameModel(st, d) ==
    IF d = "A"
    THEN RatEq(Val(st.a1), Val(a1)) /\ RatEq(Val(st.b1), Val(b1))
    ELSE RatEq(Val(st.a2), Val(a2)) /\ RatEq(Val(st.b2), Val(b2))

\* C13: once the models are frozen, the model of each device is the one the
\* same session freezes when the other device's timestamps in the pairings
\* that calibrated it are replaced by other values (the pairings' order, host
\* times and this device's timestamps being the same).
C13_FitIndependent ==
    calibration_done =>
      LET log == SubSeq(pairs, 1, CALIB_SAMPLES)
      IN  \A d \in Devices :
            /\ Replay(Moved(log, Other(d))).calibration_done
            /\ SameModel(Replay(log), d)
            /\ SameModel(Replay(Moved(log, Other(d))), d)
            /\ SameModel(Replay(Numbered(log, Other(d))), d)

\* the models are frozen, from different timestamps of the two devices, and
\* they differ
C13_Witness ==
    /\ calibration_done
    /\ calib_A # calib_B
    /\ ~RatEq(Val(a1), Val(a2))
    /\ ~RatEq(Val(b1), Val(b2))

\* all the timestamps accumulated for a device are equal
AllEqual(xs) == \A i \in 1..Len(xs) : xs[i] = xs[1]

\* C14: when the sample count has reached CALIB_SAMPLES and all accumulated
\* timestamps of a device are equal, no model is frozen from them.
C14_DegenerateRejected ==
    (calib_count >= CALIB_SAMPLES /\ (AllEqual(calib_A) \/ AllEqual(calib_B)))
        => ~calibration_done /\ a1 = None /\ b1 = None /\ a2 = None /\ b2 = None

\* two rationals are each other's negation
Negations(p, q) == RatIsZero(RatAdd(p, q))

\* C15: in every metric record the net delay of each device is the negation
\* of its residual, and at every position the net-delay history of a device
\* holds the negation of what its residual history holds.
C15_NetDelayNegatesResid ==
    /\ \A i \in 1..Len(csv_rows) :
         /\ Negations(csv_rows[i].netdelayA_us, csv_rows[i].residA_us)
         /\ Negations(csv_rows[i].netdelayB_us, csv_rows[i].residB_us)
    /\ Len(netdelayA_us_history) = Len(residA_us_history)
    /\ Len(netdelayB_us_history) = Len(residB_us_history)
    /\ \A i \in 1..Len(residA_us_history) :
         Negations(netdelayA_us_history[i], residA_us_history[i])
    /\ \A i \in 1..Len(residB_us_history) :
         Negations(netdelayB_us_history[i], residB_us_history[i])

\* a metric record with residuals that are not zero, one of them negative
C15_Witness ==
    /\ Len(csv_rows) >= 1
    /\ ~RatIsZero(csv_rows[1].residA_us)
    /\ ~RatIsZero(csv_rows[1].residB_us)
    /\ csv_rows[1].residA_us.num.neg # csv_rows[1].residB_us.num.neg
    /\ Len(residA_us_history) >= 1

\* the pairing a metric record was computed from: the calibration consumed
\* the first CALIB_SAMPLES pairings
PairingOfRow(i) == pairs[CALIB_SAMPLES + i]

\* 21000000 and 21000050 as integers, -50, 21 and 21.00005
Us21000000 == <<0, 0, 21>>
Us21000050 == <<50, 0, 21>>
Minus50 == Rat(SInt(TRUE, <<50>>), EmptyBag)
Sec21 == RatOfBig(<<21>>)
Sec21_00005 == RatDiv(RatOfBig(Us21000050), Million)

\* C16: with the exact arithmetic of this model (the program's doubles round
\* the last digits), every metric record has offset_us = (tA_corr_s -
\* tB_corr_s) * 1e6; records of pairings with the same device timestamps have
\* the same offset whatever host time was captured; and with both frozen
\* models of slope 1 and intercept 0 the offset is tA_us - tB_us, so that
\* tA_us = 21000000 and tB_us = 21000050 give 21 s, 21.00005 s and -50 us.
C16_OffsetIsAMinusB ==
    /\ \A i \in 1..Len(csv_rows) :
         /\ CALIB_SAMPLES + i <= Len(pairs)
         /\ RatEq(csv_rows[i].offset_us,
                  RatMul(RatSub(csv_rows[i].tA_corr_s, csv_rows[i].tB_corr_s),
                         Million))
         /\ (RatEq(Val(a1), One) /\ RatIsZero(Val(b1)) /\
             RatEq(Val(a2), One) /\ RatIsZero(Val(b2)))
              => /\ RatEq(csv_rows[i].offset_us,
                          RatSub(RatOfBig(PairingOfRow(i).tA),
                                 RatOfBig(PairingOfRow(i).tB)))
                 /\ (PairingOfRow(i).tA = Us21000000 /\
                     PairingOfRow(i).tB = Us21000050)
                      => /\ RatEq(csv_rows[i].tA_corr_s, Sec21)
                         /\ RatEq(csv_rows[i].tB_corr_s, Sec21_00005)
                         /\ RatEq(csv_rows[i].offset_us, Minus50)
    /\ \A i, j \in 1..Len(csv_rows) :
         (PairingOfRow(i).tA = PairingOfRow(j).tA /\
          PairingOfRow(i).tB = PairingOfRow(j).tB)
            => RatEq(csv_rows[i].offset_us, csv_rows[j].offset_us)

\* both models have slope 1 and intercept 0, and two metric records of the
\* pairing (21000000, 21000050), taken at different host times, carry -50
C16_Witness ==
    /\ calibration_done
    /\ RatEq(Val(a1), One) /\ RatIsZero(Val(b1))
    /\ RatEq(Val(a2), One) /\ RatIsZero(Val(b2))
    /\ \E i, j \in 1..Len(csv_rows) :
         /\ PairingOfRow(i).tA = Us21000000
         /\ PairingOfRow(i).tB = Us21000050
         /\ PairingOfRow(j).tA = Us21000000
         /\ PairingOfRow(j).tB = Us21000050
         /\ ~RatEq(PairingOfRow(i).tPC, PairingOfRow(j).tPC)
         /\ RatEq(csv_rows[i].offset_us, Minus50)
         /\ RatEq(csv_rows[j].offset_us, Minus50)

\* the pairing and the metric record a step has emitted
NewPairing == pairs'[Len(pairs')]
NewRow == csv_rows'[Len(csv_rows')]

\* C17: a pairing emitted while calibration_done is false, the one that
\* completes the calibration included, adds one sample to each of calib_A,
\* calib_B and calib_PC and writes no row and no history; a pairing emitted
\* while calibration_done is true writes one row with the pairing's event
\* number, appends the row's residuals and net delays to the four histories
\* and leaves the accumulators alone; no row is written without a pairing.
\* So after p pairings there are max(0, p - CALIB_SAMPLES) rows.
C17_PairingsRouted ==
    /\ [](Len(csv_rows) = IF Len(pairs) > CALIB_SAMPLES
                          THEN Len(pairs) - CALIB_SAMPLES ELSE 0)
    /\ [][/\ csv_rows' # csv_rows => Paired
          /\ (Paired /\ ~calibration_done) =>
               /\ calib_A' = Append(calib_A, NewPairing.tA)
               /\ calib_B' = Append(calib_B, NewPairing.tB)
               /\ calib_PC' = Append(calib_PC, NewPairing.tPC)
               /\ UNCHANGED <<csv_rows, residA_us_history, residB_us_history,
                              netdelayA_us_history, netdelayB_us_history>>
          /\ (Paired /\ calibration_done) =>
               /\ csv_rows' = Append(csv_rows, NewRow)
               /\ NewRow.event_no = NewPairing.event_no
               /\ residA_us_history' = DequeAppend(residA_us_history, NewRow.residA_us)
               /\ residB_us_history' = DequeAppend(residB_us_history, NewRow.residB_us)
               /\ netdelayA_us_history' =
                      DequeAppend(netdelayA_us_history, NewRow.netdelayA_us)
               /\ netdelayB_us_history' =
                      DequeAppend(netdelayB_us_history, NewRow.netdelayB_us)
               /\ UNCHANGED <<calib_A, calib_B, calib_PC, calib_count>>
         ]_vars

\* CALIB_SAMPLES pairings went to the fitter and three more to the metrics,
\* all of the same event number
C17_Witness ==
    /\ Len(pairs) = CALIB_SAMPLES + 3
    /\ Len(csv_rows) = 3
    /\ Len(calib_A) = CALIB_SAMPLES
    /\ \A i \in 1..3 : csv_rows[i].event_no = pairs[1].event_no

\* C18: a step that stores a sample of a device leaves the sample's raw
\* timestamp in last_raw_ts of the device, whether it detected a wrap or not,
\* and not the corrected timestamp it stored; if the raw timestamp is not
\* below the one remembered from the sample before, the wrap offset stays as
\* it is, also when that sample before was a wrap. So what last_raw_ts holds
\* is always below 2^32, as the raw timestamps are.
C18_LastRawIsRaw ==
    /\ [](\A d \in Devices :
             last_raw_ts[d] # None => BigLess(Val(last_raw_ts[d]), Two32))
    /\ [][Sampled =>
            LET obs == Val(accepted')
                d == obs.dev
            IN  /\ last_raw_ts'[d] = Some(obs.raw_us)
                /\ obs.ts_val = BigAdd(obs.raw_us, wrap_accum'[d])
                /\ \A o \in Devices \ {d} : last_raw_ts'[o] = last_raw_ts[o]
                /\ (last_raw_ts[d] # None /\ BigLeq(Val(last_raw_ts[d]), obs.raw_us))
                     => wrap_accum'[d] = wrap_accum[d]
         ]_vars

\* device A sent four samples, two of them wraps and, between or after them,
\* one with a raw timestamp above that of the wrap before it; the last one,
\* 1001000, was stored as 2 * 2^32 + 1001000 and remembered as 1001000
C18_Witness ==
    /\ <<1>> \in DOMAIN nstored["A"]
    /\ nstored["A"][<<1>>] = 4
    /\ wrap_accum["A"] = <<592, 934, 589, 8>>
    /\ last_raw_ts["A"] = Some(<<0, 1, 1>>)
    /\ accepted # None
    /\ Val(accepted).dev = "A"
    /\ Val(accepted).raw_us = <<0, 1, 1>>
    /\ Val(accepted).ts_val = <<592, 935, 590, 8>>

\* C20: after every line, the event numbers that have a host reference time
\* in event_PC are those that both events["A"] and events["B"] hold; and no
\* step removes an event number from events["A"], events["B"] or event_PC.
C20_PairedIffOnBothSides ==
    /\ [](DOMAIN event_PC = DOMAIN events["A"] \cap DOMAIN events["B"])
    /\ [][/\ \A d \in Devices : DOMAIN events[d] \subseteq DOMAIN events'[d]
          /\ DOMAIN event_PC \subseteq DOMAIN event_PC'
         ]_vars

\* event 1 is on both sides and has a host reference time; event 2 came
\* later, from device A only, and has none
C20_Witness ==
    /\ DOMAIN events["A"] = {<<1>>, <<2>>}
    /\ DOMAIN events["B"] = {<<1>>}
    /\ DOMAIN event_PC = {<<1>>}
    /\ accepted # None
    /\ Val(accepted).dev = "A"
    /\ Val(accepted).event_no = <<2>>
    /\ Len(pairs) >= 1

\* all four model parameters are None / none of them is
Unfitted == a1 = None /\ b1 = None /\ a2 = None /\ b2 = None
Fitted == a1 # None /\ b1 # None /\ a2 # None /\ b2 # None

\* C19: calib_A, calib_B and calib_PC have calib_count elements each, and
\* calib_count never exceeds CALIB_SAMPLES; calibration_done is true exactly
\* when calib_count is CALIB_SAMPLES; and a1, b1 are defined exactly when
\* a2, b2 are, which is exactly when calibration_done is true.
C19_CalibrationStateConsistent ==
    /\ Len(calib_A) = calib_count
    /\ Len(calib_B) = calib_count
    /\ Len(calib_PC) = calib_count
    /\ calib_count <= CALIB_SAMPLES
    /\ calibration_done <=> calib_count = CALIB_SAMPLES
    /\ (a1 # None /\ b1 # None) <=> (a2 # None /\ b2 # None)
    /\ (a1 # None <=> b1 # None) /\ (a2 # None <=> b2 # None)
    /\ calibration_done <=> Fitted
    /\ ~calibration_done <=> Unfitted

\* the models of both devices are frozen, and pairings emitted after the
\* freeze have left CALIB_SAMPLES samples in each accumulator
C19_Witness ==
    /\ calibration_done
    /\ Fitted
    /\ Len(pairs) >= CALIB_SAMPLES + 2
    /\ calib_count = CALIB_SAMPLES
    /\ Len(calib_A) = CALIB_SAMPLES
    /\ Len(calib_B) = CALIB_SAMPLES
    /\ Len(calib_PC) = CALIB_SAMPLES

\* C6: calibration_done becomes true only in a step that takes calib_count
\* from CALIB_SAMPLES - 1 to CALIB_SAMPLES, and that step fits the models,
\* which were None until then; every step that takes the count to
\* CALIB_SAMPLES makes it true; once true it stays true, and the fitted
\* models are never replaced.
C6_FreezeOnce ==
    [][/\ calibration_done => calibration_done'
       /\ (~calibration_done /\ calibration_done') =>
            /\ calib_count = CALIB_SAMPLES - 1
            /\ calib_count' = CALIB_SAMPLES
            /\ Unfitted
            /\ Fitted'
       /\ (calib_count # CALIB_SAMPLES /\ calib_count' = CALIB_SAMPLES) =>
            calibration_done'
       /\ ~calibration_done' => Unfitted' /\ calib_count' < CALIB_SAMPLES
       /\ calibration_done => UNCHANGED <<a1, b1, a2, b2>>
      ]_vars

\* the models are frozen and two pairings followed the freeze
C6_Witness ==
    /\ calibration_done
    /\ Fitted
    /\ calib_count = CALIB_SAMPLES
    /\ Len(pairs) = CALIB_SAMPLES + 2

\* C7: once calibration_done is true, no step changes a1, b1, a2, b2,
\* calib_A, calib_B, calib_PC or calib_count.
C7_FrozenUnchanged ==
    [][calibration_done =>
         UNCHANGED <<a1, b1, a2, b2, calib_A, calib_B, calib_PC, calib_count>>
      ]_vars

\* a sample was stored and paired after the freeze, and the accumulators
\* hold the CALIB_SAMPLES pairings before it
C7_Witness ==
    /\ calibration_done
    /\ Len(pairs) = CALIB_SAMPLES + 1
    /\ Len(calib_A) = CALIB_SAMPLES
    /\ Len(calib_B) = CALIB_SAMPLES
    /\ Len(calib_PC) = CALIB_SAMPLES
    /\ calib_A[CALIB_SAMPLES] # pairs[CALIB_SAMPLES + 1].tA

\* C8: a step in which compute_metrics runs (it writes a row, or raises
\* TypeError on a model that is None) starts with calibration_done true and
\* a1, b1, a2, b2 defined, so it writes one row and raises nothing; a step
\* that emits a pairing while calibration_done is false gives the pairing to
\* the fitter and writes no row and no history.
C8_MetricsAfterFreeze ==
    [][/\ pc' = "running"
       /\ csv_rows' # csv_rows =>
            /\ calibration_done
            /\ Fitted
            /\ Paired
            /\ Len(csv_rows') = Len(csv_rows) + 1
            /\ csv_rows'[Len(csv_rows')].event_no = pairs'[Len(pairs')].event_no
       /\ (Paired /\ ~calibration_done) =>
            /\ calib_A' = Append(calib_A, pairs'[Len(pairs')].tA)
            /\ calib_B' = Append(calib_B, pairs'[Len(pairs')].tB)
            /\ calib_PC' = Append(calib_PC, pairs'[Len(pairs')].tPC)
            /\ calib_count' = calib_count + 1
            /\ UNCHANGED <<csv_rows, residA_us_history, residB_us_history,
                           netdelayA_us_history, netdelayB_us_history>>
       /\ (Paired /\ calibration_done) => Len(csv_rows') = Len(csv_rows) + 1
      ]_vars

\* the first pairing after the freeze had its metrics computed
C8_Witness ==
    /\ calibration_done
    /\ Len(pairs) = CALIB_SAMPLES + 1
    /\ Len(csv_rows) = 1
    /\ csv_rows[1].event_no = pairs[CALIB_SAMPLES + 1].event_no
    /\ Len(residA_us_history) = 1

\* the last n elements of a sequence, all of them if there are fewer
LastOf(seq, n) ==
    IF Len(seq) <= n THEN seq ELSE SubSeq(seq, Len(seq) - n + 1, Len(seq))

\* the values appended so far to the four histories, from the rows written
AppendedResidA == SeqOf([i \in 1..Len(csv_rows) |-> csv_rows[i].residA_us])
AppendedResidB == SeqOf([i \in 1..Len(csv_rows) |-> csv_rows[i].residB_us])
AppendedNetdelayA == SeqOf([i \in 1..Len(csv_rows) |-> csv_rows[i].netdelayA_us])
AppendedNetdelayB == SeqOf([i \in 1..Len(csv_rows) |-> csv_rows[i].netdelayB_us])

\* C9: each of the four histories has at most RESID_WINDOW values, and holds
\* the last RESID_WINDOW values appended to it (all of them while there are
\* fewer), in the order they were appended.
C9_RollingHistories ==
    /\ Len(residA_us_history) <= RESID_WINDOW
    /\ Len(residB_us_history) <= RESID_WINDOW
    /\ Len(netdelayA_us_history) <= RESID_WINDOW
    /\ Len(netdelayB_us_history) <= RESID_WINDOW
    /\ residA_us_history = LastOf(AppendedResidA, RESID_WINDOW)
    /\ residB_us_history = LastOf(AppendedResidB, RESID_WINDOW)
    /\ netdelayA_us_history = LastOf(AppendedNetdelayA, RESID_WINDOW)
    /\ netdelayB_us_history = LastOf(AppendedNetdelayB, RESID_WINDOW)

\* one value more than RESID_WINDOW was appended: the history is full, the
\* first value appended is not in it and the last one is
C9_Witness ==
    /\ Len(csv_rows) = RESID_WINDOW + 1
    /\ Len(residA_us_history) = RESID_WINDOW
    /\ \A i \in 1..RESID_WINDOW : residA_us_history[i] # csv_rows[1].residA_us
    /\ residA_us_history[RESID_WINDOW] = csv_rows[RESID_WINDOW + 1].residA_us

\* C10: the process is never ended by a line it receives.
C10_NeverCrashes == pc # "crashed"

====
